---- MODULE Spec2Model ----
(***************************************************************************)
(* The chart-pattern detection pass of analyze_stock (src/main.py) and the *)
(* nine detectors of PatternPy/tradingpatterns/tradingpatterns.py.         *)
(*                                                                         *)
(* A DataFrame is [n |-> number of rows, cols |-> column name -> column];  *)
(* a column is a function on the row positions 0..n-1.  The row labels are *)
(* the bars' timestamps, strictly increasing and unique, so a timestamp is *)
(* named by its rank 0..n-1 in the series.  A numeric cell is <<v>> and a  *)
(* missing value (numpy's nan) is <<>>; every comparison with a missing    *)
(* value is false, as in pandas.  Prices are integers; the two relative    *)
(* range tests (5% and 10% of the midpoint) are stated in integers by      *)
(* cross-multiplication, and the price sets keep away from the points      *)
(* where the two sides are equal, where floating point rounding decides.   *)
(***************************************************************************)
EXTENDS Integers, Sequences, FiniteSets, TLC

VARIABLES df, patterns_with_times, detected_patterns, ran, pc, window, twindow, order

vars == <<df, patterns_with_times, detected_patterns, ran, pc, window, twindow, order>>

\* Bounds of the model.
MaxLen == 4
MaxWindow == 3
MaxTrendWindow == 3

----------------------------------------------------------------------------
\* Cells, columns and the pandas primitives the detectors use.

NaN == <<>>

Val(v) == <<v>>

Rows(n) == 0 .. (n - 1)

\* Series comparison: False wherever either side is missing.
Gt(a, b) == a # NaN /\ b # NaN /\ a[1] > b[1]

Lt(a, b) == a # NaN /\ b # NaN /\ a[1] < b[1]

Ge(a, b) == a # NaN /\ b # NaN /\ a[1] >= b[1]

Le(a, b) == a # NaN /\ b # NaN /\ a[1] <= b[1]

\* series == scalar
EqNum(a, k) == a # NaN /\ a[1] = k

\* Mutant of Shift: the rows shifted out at one end come back in at the other
\* (numpy.roll) instead of leaving missing values.
ShiftWrap(col, k, n) == [i \in Rows(n) |-> col[(i - k) % n]]

\* Series.shift(k): row i takes the value of row i-k, missing outside the frame.
Shift(col, k, n) == [i \in Rows(n) |-> IF (i - k) \in Rows(n) THEN col[i - k] ELSE NaN]

\* Series.diff(): col - col.shift(1).
Diff(col, n) ==
    [i \in Rows(n) |->
        IF i - 1 \in Rows(n) /\ col[i] # NaN /\ col[i - 1] # NaN
        THEN Val(col[i][1] - col[i - 1][1]) ELSE NaN]

SetMax(S) == CHOOSE x \in S : \A y \in S : y <= x

SetMin(S) == CHOOSE x \in S : \A y \in S : x <= y

\* The rows of the window of size w that ends at row i: the last w rows, fewer
\* at the start of the frame.
WindowRows(i, w) == {j \in (i - w + 1) .. i : j >= 0}

\* Mutant of min_periods: rolling(window=w, min_periods=1).
min_periods_one(w) == 1

\* rolling(window=w) leaves min_periods at its default, the window size.
min_periods(w) == w

\* A rolling window has a value only when it holds at least min_periods
\* observations that are not missing, so from row w-1 on.
WindowFull(col, i, w) ==
    Cardinality({j \in WindowRows(i, w) : col[j] # NaN}) >= min_periods(w)

Observed(col, i, w) == {col[j][1] : j \in {r \in WindowRows(i, w) : col[r] # NaN}}

\* Mutant of RollingMax: an expanding maximum over the rows the window has,
\* with a value from row 0 on.
RollingMaxExpanding(col, w, n) ==
    [i \in Rows(n) |-> IF Observed(col, i, w) # {} THEN Val(SetMax(Observed(col, i, w))) ELSE NaN]

\* Series.rolling(window=w).max()
RollingMax(col, w, n) ==
    [i \in Rows(n) |-> IF WindowFull(col, i, w) THEN Val(SetMax(Observed(col, i, w))) ELSE NaN]

\* Series.rolling(window=w).min()
RollingMin(col, w, n) ==
    [i \in Rows(n) |-> IF WindowFull(col, i, w) THEN Val(SetMin(Observed(col, i, w))) ELSE NaN]

\* lambda x: 1 if (x.iloc[-1]-x.iloc[0])>0 else -1 if (x.iloc[-1]-x.iloc[0])<0 else 0
TrendSign(first, last) == IF last - first > 0 THEN 1 ELSE IF last - first < 0 THEN -1 ELSE 0

\* Series.rolling(window=w).apply(that lambda): x.iloc[0] is the first row of
\* the window and x.iloc[-1] row i.
RollingTrend(col, w, n) ==
    [i \in Rows(n) |->
        IF WindowFull(col, i, w)
        THEN Val(TrendSign(col[SetMin(WindowRows(i, w))][1], col[i][1]))
        ELSE NaN]

RECURSIVE SumOver(_, _, _)
SumOver(f, lo, hi) == IF lo > hi THEN 0 ELSE f[lo] + SumOver(f, lo + 1, hi)

\* rolling(window=w).mean() and .std() enter only the band of
\* calculate_support_resistance, mean + k*std.  The sample standard deviation
\* is a square root, so the band is kept exact as the tuple
\* <<sum, w, k, w*sum of squares - sum^2, w*(w-1)>>, read as
\* sum/w + k*sqrt((w*sumsq - sum^2) / (w*(w-1))).  With w = 1 the sample
\* deviation divides by zero and is missing, and so is the band.
Band(col, w, k, n) ==
    [i \in Rows(n) |->
        IF WindowFull(col, i, w) /\ w > 1
        THEN LET lo == SetMin(WindowRows(i, w))
                 s  == SumOver([j \in WindowRows(i, w) |-> col[j][1]], lo, i)
                 sq == SumOver([j \in WindowRows(i, w) |-> col[j][1] * col[j][1]], lo, i)
             IN  <<s, w, k, w * sq - s * s, w * (w - 1)>>
        ELSE NaN]

\* df[name] = col
SetCol(d, name, col) ==
    [n |-> d.n,
     cols |-> [c \in (DOMAIN d.cols) \cup {name} |-> IF c = name THEN col ELSE d.cols[c]]]

\* df[name] = scalar
Fill(d, v) == [i \in Rows(d.n) |-> v]

\* df.loc[mask, name] = value
LocSet(col, mask, v) == [i \in DOMAIN col |-> IF mask[i] THEN v ELSE col[i]]

\* df.loc[mask, name] = series
LocSetSeries(col, mask, src) == [i \in DOMAIN col |-> IF mask[i] THEN src[i] ELSE col[i]]

\* df.rename(columns={old1: new1, old2: new2})
Rename(d, old1, new1, old2, new2) ==
    LET to(c) == IF c = old1 THEN new1 ELSE IF c = old2 THEN new2 ELSE c
        names == {to(c) : c \in DOMAIN d.cols}
    IN  [n |-> d.n,
         cols |-> [c \in names |-> d.cols[CHOOSE o \in DOMAIN d.cols : to(o) = c]]]

\* df.index[mask].tolist(): the timestamps of the rows where mask holds, in
\* series order.
RECURSIVE IndexFrom(_, _, _)
IndexFrom(mask, i, n) ==
    IF i >= n THEN <<>>
    ELSE (IF mask[i] THEN <<i>> ELSE <<>>) \o IndexFrom(mask, i + 1, n)

IndexWhere(mask, n) == IndexFrom(mask, 0, n)

\* dict.update
Update(p, q) == [k \in (DOMAIN p) \cup (DOMAIN q) |-> IF k \in DOMAIN q THEN q[k] ELSE p[k]]

\* The high_roll_max / low_roll_min columns every window detector rewrites first.
WithRolls(d, w) ==
    SetCol(SetCol(d, "high_roll_max", RollingMax(d.cols["High"], w, d.n)),
           "low_roll_min", RollingMin(d.cols["Low"], w, d.n))

----------------------------------------------------------------------------
\* The detectors.  Each takes the frame and its window and gives
\* [df |-> the frame with its columns added, patterns |-> label -> timestamps].

Prev(d, c) == Shift(d.cols[c], 1, d.n)

Next1(d, c) == Shift(d.cols[c], -1, d.n)

mask_head_shoulder(d) ==
    LET prev == Prev(d, "High")
        next == Next1(d, "High")
    IN  [i \in Rows(d.n) |->
            /\ Gt(d.cols["high_roll_max"][i], prev[i])
            /\ Gt(d.cols["high_roll_max"][i], next[i])
            /\ Lt(d.cols["High"][i], prev[i])
            /\ Lt(d.cols["High"][i], next[i])]

mask_inv_head_shoulder(d) ==
    LET prev == Prev(d, "Low")
        next == Next1(d, "Low")
    IN  [i \in Rows(d.n) |->
            /\ Lt(d.cols["low_roll_min"][i], prev[i])
            /\ Lt(d.cols["low_roll_min"][i], next[i])
            /\ Gt(d.cols["Low"][i], prev[i])
            /\ Gt(d.cols["Low"][i], next[i])]

\* The shared tail of the two-label detectors: the label column starts as '',
\* takes the first label where the first mask holds, then the second label
\* where the second mask holds; the result lists each mask's timestamps.
TwoLabel(d, column, label1, mask1, label2, mask2) ==
    [df |-> SetCol(d, column, LocSet(LocSet(Fill(d, ""), mask1, label1), mask2, label2)),
     patterns |-> (label1 :> IndexWhere(mask1, d.n)) @@ (label2 :> IndexWhere(mask2, d.n))]

detect_head_shoulder(d0, w) ==
    LET d == WithRolls(d0, w)
    IN  TwoLabel(d, "head_shoulder_pattern",
                 "Head and Shoulder", mask_head_shoulder(d),
                 "Inverse Head and Shoulder", mask_inv_head_shoulder(d))

WithCloseRolls(d, w) ==
    SetCol(SetCol(d, "close_roll_max", RollingMax(d.cols["Close"], w, d.n)),
           "close_roll_min", RollingMin(d.cols["Close"], w, d.n))

\* Mutant of mask_top: close_roll_max <= Close.shift(1).
mask_top_le(d) ==
    [i \in Rows(d.n) |->
        /\ Ge(d.cols["high_roll_max"][i], Prev(d, "High")[i])
        /\ Le(d.cols["close_roll_max"][i], Prev(d, "Close")[i])]

mask_top(d) ==
    [i \in Rows(d.n) |->
        /\ Ge(d.cols["high_roll_max"][i], Prev(d, "High")[i])
        /\ Lt(d.cols["close_roll_max"][i], Prev(d, "Close")[i])]

mask_bottom(d) ==
    [i \in Rows(d.n) |->
        /\ Le(d.cols["low_roll_min"][i], Prev(d, "Low")[i])
        /\ Gt(d.cols["close_roll_min"][i], Prev(d, "Close")[i])]

detect_multiple_tops_bottoms(d0, w) ==
    LET d == WithCloseRolls(WithRolls(d0, w), w)
    IN  TwoLabel(d, "multiple_top_bottom_pattern",
                 "Multiple Top", mask_top(d), "Multiple Bottom", mask_bottom(d))

std_dev == 2

calculate_support_resistance(d0, w) ==
    LET d == WithRolls(d0, w)
    IN  [df |-> SetCol(SetCol(d, "support", Band(d.cols["Low"], w, -std_dev, d.n)),
                       "resistance", Band(d.cols["High"], w, std_dev, d.n)),
         patterns |-> <<>>]

\* Mutant of EnvelopeUp: strict comparisons, as head-and-shoulders has them.
EnvelopeUpStrict(d, i) ==
    /\ Gt(d.cols["high_roll_max"][i], Shift(d.cols["High"], 1, d.n)[i])
    /\ Lt(d.cols["low_roll_min"][i], Shift(d.cols["Low"], 1, d.n)[i])

\* The envelope shared by triangle, wedge and channel.
EnvelopeUp(d, i) ==
    /\ Ge(d.cols["high_roll_max"][i], Prev(d, "High")[i])
    /\ Le(d.cols["low_roll_min"][i], Prev(d, "Low")[i])

EnvelopeDown(d, i) ==
    /\ Le(d.cols["high_roll_max"][i], Prev(d, "High")[i])
    /\ Ge(d.cols["low_roll_min"][i], Prev(d, "Low")[i])

mask_asc(d) ==
    [i \in Rows(d.n) |-> EnvelopeUp(d, i) /\ Gt(d.cols["Close"][i], Prev(d, "Close")[i])]

mask_desc(d) ==
    [i \in Rows(d.n) |-> EnvelopeDown(d, i) /\ Lt(d.cols["Close"][i], Prev(d, "Close")[i])]

detect_triangle_pattern(d0, w) ==
    LET d == WithRolls(d0, w)
    IN  TwoLabel(d, "triangle_pattern",
                 "Ascending Triangle", mask_asc(d), "Descending Triangle", mask_desc(d))

WithTrends(d, w) ==
    SetCol(SetCol(d, "trend_high", RollingTrend(d.cols["High"], w, d.n)),
           "trend_low", RollingTrend(d.cols["Low"], w, d.n))

TrendsAre(d, i, k) == EqNum(d.cols["trend_high"][i], k) /\ EqNum(d.cols["trend_low"][i], k)

mask_wedge_up(d) == [i \in Rows(d.n) |-> EnvelopeUp(d, i) /\ TrendsAre(d, i, 1)]

mask_wedge_down(d) == [i \in Rows(d.n) |-> EnvelopeDown(d, i) /\ TrendsAre(d, i, -1)]

detect_wedge(d0, w) ==
    LET d == WithTrends(WithRolls(d0, w), w)
    IN  TwoLabel(d, "wedge_pattern",
                 "Wedge Up", mask_wedge_up(d), "Wedge Down", mask_wedge_down(d))

\* hi - lo <= pct% * (hi + lo) / 2, in integers: 200*(hi - lo) <= pct*(hi + lo).
\* False when either side is missing.
RangeWithin(hi, lo, pct) ==
    hi # NaN /\ lo # NaN /\ 200 * (hi[1] - lo[1]) <= pct * (hi[1] + lo[1])

\* channel_range = 0.1, as a percentage
channel_range == 10

ChannelTight(d, i) ==
    RangeWithin(d.cols["high_roll_max"][i], d.cols["low_roll_min"][i], channel_range)

mask_channel_up(d) ==
    [i \in Rows(d.n) |-> EnvelopeUp(d, i) /\ ChannelTight(d, i) /\ TrendsAre(d, i, 1)]

mask_channel_down(d) ==
    [i \in Rows(d.n) |-> EnvelopeDown(d, i) /\ ChannelTight(d, i) /\ TrendsAre(d, i, -1)]

detect_channel(d0, w) ==
    LET d == WithTrends(WithRolls(d0, w), w)
    IN  TwoLabel(d, "channel_pattern",
                 "Channel Up", mask_channel_up(d), "Channel Down", mask_channel_down(d))

\* threshold = 0.05, as a percentage
threshold == 5

\* Both neighbours of row i have a high-low range within the threshold.
NeighboursTight(d, i, pct) ==
    /\ RangeWithin(Prev(d, "High")[i], Prev(d, "Low")[i], pct)
    /\ RangeWithin(Next1(d, "High")[i], Next1(d, "Low")[i], pct)

\* Mutant of mask_double_top: the rolling maximum must be strictly above both
\* neighbours, as in head-and-shoulders.
mask_double_top_strict(d, pct) ==
    [i \in Rows(d.n) |->
        /\ Gt(d.cols["high_roll_max"][i], Prev(d, "High")[i])
        /\ Gt(d.cols["high_roll_max"][i], Next1(d, "High")[i])
        /\ Lt(d.cols["High"][i], Prev(d, "High")[i])
        /\ Lt(d.cols["High"][i], Next1(d, "High")[i])
        /\ NeighboursTight(d, i, pct)]

mask_double_top(d, pct) ==
    [i \in Rows(d.n) |->
        /\ Ge(d.cols["high_roll_max"][i], Prev(d, "High")[i])
        /\ Ge(d.cols["high_roll_max"][i], Next1(d, "High")[i])
        /\ Lt(d.cols["High"][i], Prev(d, "High")[i])
        /\ Lt(d.cols["High"][i], Next1(d, "High")[i])
        /\ NeighboursTight(d, i, pct)]

mask_double_bottom(d, pct) ==
    [i \in Rows(d.n) |->
        /\ Le(d.cols["low_roll_min"][i], Prev(d, "Low")[i])
        /\ Le(d.cols["low_roll_min"][i], Next1(d, "Low")[i])
        /\ Gt(d.cols["Low"][i], Prev(d, "Low")[i])
        /\ Gt(d.cols["Low"][i], Next1(d, "Low")[i])
        /\ NeighboursTight(d, i, pct)]

detect_double_top_bottom(d0, w, pct) ==
    LET d == WithRolls(d0, w)
    IN  TwoLabel(d, "double_pattern",
                 "Double Top", mask_double_top(d, pct),
                 "Double Bottom", mask_double_bottom(d, pct))

\* The least-squares line y = m*x + c through the w points (x, Close[x]),
\* x = i-w .. i-1, as np.linalg.lstsq solves it for w >= 2, in exact
\* arithmetic: with Sx, Sy, Sxx, Sxy the sums over the window and
\* D = w*Sxx - Sx^2 > 0,   m = (w*Sxy - Sx*Sy) / D,   c = (Sy*D - (w*Sxy - Sx*Sy)*Sx) / (w*D).
\* A fraction is the cell <<numerator, denominator>> with a positive
\* denominator.  The rounding of the floating point solver is not modelled.
LstsqDen(i, w) ==
    w * SumOver([x \in (i - w) .. (i - 1) |-> x * x], i - w, i - 1)
      - SumOver([x \in (i - w) .. (i - 1) |-> x], i - w, i - 1)
        * SumOver([x \in (i - w) .. (i - 1) |-> x], i - w, i - 1)

LstsqSlopeNum(close, i, w) ==
    w * SumOver([x \in (i - w) .. (i - 1) |-> x * close[x][1]], i - w, i - 1)
      - SumOver([x \in (i - w) .. (i - 1) |-> x], i - w, i - 1)
        * SumOver([x \in (i - w) .. (i - 1) |-> close[x][1]], i - w, i - 1)

LstsqSlope(close, i, w) == <<LstsqSlopeNum(close, i, w), LstsqDen(i, w)>>

LstsqIntercept(close, i, w) ==
    <<SumOver([x \in (i - w) .. (i - 1) |-> close[x][1]], i - w, i - 1) * LstsqDen(i, w)
        - LstsqSlopeNum(close, i, w) * SumOver([x \in (i - w) .. (i - 1) |-> x], i - w, i - 1),
      w * LstsqDen(i, w)>>

\* for i in range(window, len(df)): the rows that get a fitted line.
FittedRows(w, n) == {i \in Rows(n) : i >= w}

slope_column(d, w) ==
    [i \in Rows(d.n) |-> IF i \in FittedRows(w, d.n) THEN LstsqSlope(d.cols["Close"], i, w) ELSE NaN]

intercept_column(d, w) ==
    [i \in Rows(d.n) |-> IF i \in FittedRows(w, d.n) THEN LstsqIntercept(d.cols["Close"], i, w) ELSE NaN]

\* Mutant of mask_support: df['slope'] >= 0.
mask_support_ge(d) == [i \in Rows(d.n) |-> d.cols["slope"][i] # NaN /\ d.cols["slope"][i][1] >= 0]

\* df['slope'] > 0 and df['slope'] < 0: the sign of a fraction with a positive
\* denominator is the sign of its numerator; a missing slope compares false.
mask_support(d) == [i \in Rows(d.n) |-> d.cols["slope"][i] # NaN /\ d.cols["slope"][i][1] > 0]

mask_resistance(d) == [i \in Rows(d.n) |-> d.cols["slope"][i] # NaN /\ d.cols["slope"][i][1] < 0]

\* df['Close'] * df['slope'] + df['intercept'], a fraction; missing where the
\* slope is.
TrendValue(d) ==
    [i \in Rows(d.n) |->
        IF d.cols["slope"][i] = NaN \/ d.cols["intercept"][i] = NaN \/ d.cols["Close"][i] = NaN
        THEN NaN
        ELSE LET m == d.cols["slope"][i]
                 c == d.cols["intercept"][i]
             IN  <<d.cols["Close"][i][1] * m[1] * c[2] + c[1] * m[2], m[2] * c[2]>>]

\* Mutant of detect_trendline: the 'support' and 'resistance' columns are not
\* reset before the trendline values are written, and the lists name the rows
\* that carry a value in them.
detect_trendline_keep(d0, w) ==
    LET d == SetCol(SetCol(d0, "slope", slope_column(d0, w)), "intercept", intercept_column(d0, w))
        old(c) == IF c \in DOMAIN d.cols THEN d.cols[c] ELSE Fill(d, NaN)
        sup == LocSetSeries(old("support"), mask_support(d), TrendValue(d))
        res == LocSetSeries(old("resistance"), mask_resistance(d), TrendValue(d))
    IN  [df |-> SetCol(SetCol(d, "support", sup), "resistance", res),
         patterns |-> ("Support Trendline" :> IndexWhere([i \in Rows(d.n) |-> sup[i] # NaN], d.n))
                      @@ ("Resistance Trendline" :> IndexWhere([i \in Rows(d.n) |-> res[i] # NaN], d.n))]

detect_trendline(d0, w) ==
    LET d == SetCol(SetCol(d0, "slope", slope_column(d0, w)), "intercept", intercept_column(d0, w))
        sup == LocSetSeries(Fill(d, NaN), mask_support(d), TrendValue(d))
        res == LocSetSeries(Fill(d, NaN), mask_resistance(d), TrendValue(d))
    IN  [df |-> SetCol(SetCol(d, "support", sup), "resistance", res),
         patterns |-> ("Support Trendline" :> IndexWhere(mask_support(d), d.n))
                      @@ ("Resistance Trendline" :> IndexWhere(mask_resistance(d), d.n))]

\* series > 0 and series < 0 on a column of differences
\* Mutant of Pos: diffs >= 0, a zero difference counts as a rise.
PosOrZero(a) == a # NaN /\ a[1] >= 0

Pos(a) == a # NaN /\ a[1] > 0

Neg(a) == a # NaN /\ a[1] < 0

high_diffs(d) == Diff(d.cols["high"], d.n)

low_diffs(d) == Diff(d.cols["low"], d.n)

higher_high_mask(d) ==
    LET diffs == high_diffs(d)
        next == Shift(high_diffs(d), -1, d.n)
    IN  [i \in Rows(d.n) |-> Pos(diffs[i]) /\ Neg(next[i])]

lower_low_mask(d) ==
    LET diffs == low_diffs(d)
        next == Shift(low_diffs(d), -1, d.n)
    IN  [i \in Rows(d.n) |-> Neg(diffs[i]) /\ Pos(next[i])]

lower_high_mask(d) ==
    LET diffs == high_diffs(d)
        next == Shift(high_diffs(d), -1, d.n)
    IN  [i \in Rows(d.n) |-> Neg(diffs[i]) /\ Pos(next[i])]

higher_low_mask(d) ==
    LET diffs == low_diffs(d)
        next == Shift(low_diffs(d), -1, d.n)
    IN  [i \in Rows(d.n) |-> Pos(diffs[i]) /\ Neg(next[i])]

\* Mutant of signal_column: the four assignments in the opposite order, so
\* that the first label of the order HH, LL, LH, HL wins.
signal_column_first_wins(d) ==
    LocSet(LocSet(LocSet(LocSet(Fill(d, ""), higher_low_mask(d), "HL"),
                         lower_high_mask(d), "LH"),
                  lower_low_mask(d), "LL"),
           higher_high_mask(d), "HH")

\* df['signal'] = '' and the four df.loc[...] = ... assignments, in the
\* order the code makes them: a later assignment overwrites an earlier one.
signal_column(d) ==
    LocSet(LocSet(LocSet(LocSet(Fill(d, ""), higher_high_mask(d), "HH"),
                         lower_low_mask(d), "LL"),
                  lower_high_mask(d), "LH"),
           higher_low_mask(d), "HL")

find_pivots(d) ==
    [df |-> SetCol(d, "signal", signal_column(d)),
     patterns |-> ("Higher High" :> IndexWhere(higher_high_mask(d), d.n))
                  @@ ("Lower Low" :> IndexWhere(lower_low_mask(d), d.n))
                  @@ ("Lower High" :> IndexWhere(lower_high_mask(d), d.n))
                  @@ ("Higher Low" :> IndexWhere(higher_low_mask(d), d.n))]

\* Mutant of find_pivots_renamed: the rename back crosses the two names,
\* {'high': 'Low', 'low': 'High'}.
find_pivots_renamed_crossed(d) ==
    LET r == find_pivots(Rename(d, "High", "high", "Low", "low"))
    IN  [df |-> Rename(r.df, "high", "Low", "low", "High"), patterns |-> r.patterns]

\* analyze_stock renames High/Low to high/low around find_pivots and back.
find_pivots_renamed(d) ==
    LET r == find_pivots(Rename(d, "High", "high", "Low", "low"))
    IN  [df |-> Rename(r.df, "high", "High", "low", "Low"), patterns |-> r.patterns]

----------------------------------------------------------------------------
\* analyze_stock: the detection pass and the aggregation.

\* pd.DataFrame(processed_data), the renames and set_index('date'): bars is
\* the sequence of processed bars, row i of the frame is bar i+1.
Frame(bars) ==
    [n |-> Len(bars),
     cols |-> [c \in {"Open", "High", "Low", "Close", "Volume"} |->
                 [i \in Rows(Len(bars)) |-> Val(bars[i + 1][c])]]]

\* The order in which analyze_stock calls the detectors.
Order ==
    <<"head_shoulder", "multiple_tops_bottoms", "support_resistance", "triangle",
      "wedge", "channel", "double_top_bottom", "trendline", "pivots">>

Detectors == {Order[k] : k \in 1 .. Len(Order)}

Position(name) == CHOOSE k \in 1 .. Len(Order) : Order[k] = name

Before(name) == {Order[k] : k \in 1 .. (Position(name) - 1)}

Detect(name, d, w, tw) ==
    CASE name = "head_shoulder" -> detect_head_shoulder(d, w)
      [] name = "multiple_tops_bottoms" -> detect_multiple_tops_bottoms(d, w)
      [] name = "support_resistance" -> calculate_support_resistance(d, w)
      [] name = "triangle" -> detect_triangle_pattern(d, w)
      [] name = "wedge" -> detect_wedge(d, w)
      [] name = "channel" -> detect_channel(d, w)
      [] name = "double_top_bottom" -> detect_double_top_bottom(d, w, threshold)
      [] name = "trendline" -> detect_trendline(d, tw)
      [] name = "pivots" -> find_pivots_renamed(d)

\* ts.strftime("%Y-%m-%d %H:%M:%S"): the timestamp as text.
strftime(ts) == ToString(ts)

\* Mutant of Collected: without the 'if timestamps' test.
CollectedAll(p) == [k \in DOMAIN p |-> [j \in 1 .. Len(p[k]) |-> strftime(p[k][j])]]

\* for pattern, timestamps in patterns_with_times.items(): if timestamps: ...
Collected(p) ==
    [k \in {l \in DOMAIN p : Len(p[l]) > 0} |-> [j \in 1 .. Len(p[k]) |-> strftime(p[k][j])]]

\* A detector runs once, during the detection pass; analyze_stock calls them
\* in the order above.
CanRun(name) ==
    /\ pc = "detect"
    /\ name \notin ran
    /\ order = "code" => ran = Before(name)

\* df, found = detector(df); patterns_with_times.update(found)
Run(name) ==
    /\ LET r == Detect(name, df, window, twindow)
       IN  /\ df' = r.df
           /\ patterns_with_times' = Update(patterns_with_times, r.patterns)
    /\ ran' = ran \cup {name}
    /\ UNCHANGED <<detected_patterns, pc, window, twindow, order>>

HeadShoulder == CanRun("head_shoulder") /\ Run("head_shoulder")

MultipleTopsBottoms == CanRun("multiple_tops_bottoms") /\ Run("multiple_tops_bottoms")

SupportResistance == CanRun("support_resistance") /\ Run("support_resistance")

Triangle == CanRun("triangle") /\ Run("triangle")

Wedge == CanRun("wedge") /\ Run("wedge")

Channel == CanRun("channel") /\ Run("channel")

DoubleTopBottom == CanRun("double_top_bottom") /\ Run("double_top_bottom")

Trendline == CanRun("trendline") /\ Run("trendline")

Pivots == CanRun("pivots") /\ Run("pivots")

Collect ==
    /\ pc = "detect"
    /\ ran = Detectors
    /\ detected_patterns' = Collected(patterns_with_times)
    /\ pc' = "done"
    /\ UNCHANGED <<df, patterns_with_times, ran, window, twindow, order>>

Next ==
    \/ HeadShoulder
    \/ MultipleTopsBottoms
    \/ SupportResistance
    \/ Triangle
    \/ Wedge
    \/ Channel
    \/ DoubleTopBottom
    \/ Trendline
    \/ Pivots
    \/ Collect

\* The state when the detection pass starts, for a series drawn from Series,
\* a window from Ws and a trendline window from TWs.
InitWith(Series, Ws, TWs, ord) ==
    /\ \E bars \in Series : df = Frame(bars)
    /\ patterns_with_times = <<>>
    /\ detected_patterns = <<>>
    /\ ran = {}
    /\ pc = "detect"
    /\ window \in Ws
    /\ twindow \in TWs
    /\ order = ord

\* The default windows of the detectors, the ones analyze_stock runs with.
DefaultWindow == 3

DefaultTrendWindow == 2

SeriesOver(Bars, maxlen) == UNION {[1 .. n -> Bars] : n \in 1 .. maxlen}

\* Bars of the checked series, as <<High, Low>> shapes: the high is never
\* below the low, highs and lows take three levels each, and the range of a
\* bar goes from 0% to 12% of its midpoint, so the 5% and the 10% range tests
\* both pass and fail.  Every shape occurs closing at its high and one also
\* closing at its low, so that the closes rise, fall and stay flat whatever
\* the highs and lows do.
Shapes == {<<45, 40>>, <<43, 41>>, <<42, 42>>, <<43, 42>>, <<42, 41>>}

LowCloseShapes == {<<43, 41>>}

Bar(h, l, c) == [Open |-> l, High |-> h, Low |-> l, Close |-> c, Volume |-> 100]

MarketBars ==
    {Bar(s[1], s[2], s[1]) : s \in Shapes} \cup {Bar(s[1], s[2], s[2]) : s \in LowCloseShapes}

Init ==
    InitWith(SeriesOver(MarketBars, MaxLen), 1 .. MaxWindow, {DefaultTrendWindow}, "code")

Spec == Init /\ [][Next]_vars

\* Series for the trendline: one bar shape, closes on three levels around 10,
\* every trendline window from the default up.
TrendBars == {Bar(11, 9, c) : c \in {9, 10, 11}}

TrendMaxLen == 5

InitTrend ==
    InitWith(SeriesOver(TrendBars, TrendMaxLen), {DefaultWindow},
             DefaultTrendWindow .. MaxTrendWindow, "code")

SpecTrend == InitTrend /\ [][Next]_vars

\* Series of flat highs at 10 and flat lows at 5 with closes from 1 to 5.
TriangleBars == {Bar(10, 5, c) : c \in 1 .. 5}

TriangleMaxLen == 5

InitTriangle ==
    InitWith(SeriesOver(TriangleBars, TriangleMaxLen), {DefaultWindow}, {DefaultTrendWindow}, "code")

SpecTriangle == InitTriangle /\ [][Next]_vars

\* The detectors run in any order, each once, on three of the market shapes
\* closing at their high.
OrderShapes == {<<42, 42>>, <<43, 42>>, <<42, 41>>}

OrderBars == {Bar(s[1], s[2], s[1]) : s \in OrderShapes}

OrderMaxLen == 4

InitAnyOrder ==
    InitWith(SeriesOver(OrderBars, OrderMaxLen), {DefaultWindow}, {DefaultTrendWindow}, "any")

SpecAnyOrder == InitAnyOrder /\ [][Next]_vars

\* Short series: up to three bars under every shape window and every
\* trendline window up to four, so that a series can be shorter than the
\* window and still hold three bars.
ShortMaxLen == 3

ShortMaxWindow == 4

InitShort ==
    InitWith(SeriesOver(MarketBars, ShortMaxLen), 1 .. ShortMaxWindow,
             DefaultTrendWindow .. ShortMaxWindow, "code")

SpecShort == InitShort /\ [][Next]_vars

----------------------------------------------------------------------------
\* Properties.

\* The timestamps the pass has recorded under a label so far.
Found(label) ==
    IF label \in DOMAIN patterns_with_times THEN patterns_with_times[label] ELSE <<>>

Stamps(label) == {Found(label)[k] : k \in 1 .. Len(Found(label))}

Overlap(l1, l2) == Stamps(l1) \cap Stamps(l2)

\* The price columns of the frame as sequences.
HighAt(i) == df.cols["High"][i][1]

LowAt(i) == df.cols["Low"][i][1]

CloseAt(i) == df.cols["Close"][i][1]

Closes == [k \in 1 .. df.n |-> CloseAt(k - 1)]

\* C1 as stated: in each of the six two-label detectors no timestamp is in
\* both the Up-variant list and the Down-variant list.
C1_EveryFamilyExclusive ==
    /\ Overlap("Head and Shoulder", "Inverse Head and Shoulder") = {}
    /\ Overlap("Multiple Top", "Multiple Bottom") = {}
    /\ Overlap("Ascending Triangle", "Descending Triangle") = {}
    /\ Overlap("Wedge Up", "Wedge Down") = {}
    /\ Overlap("Channel Up", "Channel Down") = {}
    /\ Overlap("Double Top", "Double Bottom") = {}

\* What does hold: multiple top/bottom, triangle, wedge and channel never list
\* a timestamp under both of their labels; head-and-shoulders and double
\* top/bottom can (their Up test reads only the highs, their Down test only
\* the lows), and the label column of such a bar, which holds one label,
\* carries the Down variant alone.
ExclusiveWhereCloseOrTrendDecides ==
    /\ Overlap("Multiple Top", "Multiple Bottom") = {}
    /\ Overlap("Ascending Triangle", "Descending Triangle") = {}
    /\ Overlap("Wedge Up", "Wedge Down") = {}
    /\ Overlap("Channel Up", "Channel Down") = {}
    /\ \A t \in Overlap("Head and Shoulder", "Inverse Head and Shoulder") :
          df.cols["head_shoulder_pattern"][t] = "Inverse Head and Shoulder"
    /\ \A t \in Overlap("Double Top", "Double Bottom") :
          df.cols["double_pattern"][t] = "Double Bottom"

\* A finished pass in which one bar is both 'Head and Shoulder' and 'Inverse
\* Head and Shoulder' and both 'Double Top' and 'Double Bottom', while the
\* triangle detector has fired.
BothVariantsReached ==
    /\ pc = "done"
    /\ Overlap("Head and Shoulder", "Inverse Head and Shoulder") # {}
    /\ Overlap("Double Top", "Double Bottom") # {}
    /\ Stamps("Ascending Triangle") # {}

\* The last of the pivot labels, in the order HH, LL, LH, HL of the
\* assignments, whose list holds the timestamp; '' when none does.
LastPivotMatch(t) ==
    IF t \in Stamps("Higher Low") THEN "HL"
    ELSE IF t \in Stamps("Lower High") THEN "LH"
    ELSE IF t \in Stamps("Lower Low") THEN "LL"
    ELSE IF t \in Stamps("Higher High") THEN "HH"
    ELSE ""

FirstPivotMatch(t) ==
    IF t \in Stamps("Higher High") THEN "HH"
    ELSE IF t \in Stamps("Lower Low") THEN "LL"
    ELSE IF t \in Stamps("Lower High") THEN "LH"
    ELSE IF t \in Stamps("Higher Low") THEN "HL"
    ELSE ""

PivotLabels == {"Higher High", "Lower Low", "Lower High", "Higher Low"}

\* C2 as stated: find_pivots lists each bar under at most one pivot label, and
\* the 'signal' column holds the first match in the order HH, LL, LH, HL.
C2_OneLabelFirstMatch ==
    "pivots" \in ran =>
        /\ \A l1 \in PivotLabels : \A l2 \in PivotLabels \ {l1} : Overlap(l1, l2) = {}
        /\ \A t \in Rows(df.n) : df.cols["signal"][t] = FirstPivotMatch(t)

\* C2 amended: a bar is listed under every pivot label whose test it passes:
\* the two labels read from the highs exclude each other, and so do the two
\* read from the lows, but a bar can be in one list of each pair; the 'signal'
\* column holds the last match in the order HH, LL, LH, HL.
C2_OnePerPairLastMatch ==
    "pivots" \in ran =>
        /\ Overlap("Higher High", "Lower High") = {}
        /\ Overlap("Lower Low", "Higher Low") = {}
        /\ \A t \in Rows(df.n) : df.cols["signal"][t] = LastPivotMatch(t)

\* A bar listed under 'Higher High' and under 'Lower Low', signalled 'LL'.
C2_Witness ==
    /\ "pivots" \in ran
    /\ \E t \in Overlap("Higher High", "Lower Low") : df.cols["signal"][t] = "LL"

NeighbourLabels ==
    {"Head and Shoulder", "Inverse Head and Shoulder", "Double Top", "Double Bottom"}
        \cup PivotLabels

\* C3: head-and-shoulders, double top/bottom and the pivot detector never
\* record the first bar (index 0) or the last bar (index N-1) under any label.
C3_BoundaryBarsNeverRecorded ==
    \A l \in NeighbourLabels : 0 \notin Stamps(l) /\ (df.n - 1) \notin Stamps(l)

\* A finished pass on four bars where all three detectors recorded an
\* interior bar.
C3_Witness ==
    /\ pc = "done"
    /\ df.n = 4
    /\ Stamps("Head and Shoulder") # {}
    /\ Stamps("Double Top") # {}
    /\ Stamps("Lower High") # {}

ShapeLabels ==
    {"Head and Shoulder", "Inverse Head and Shoulder", "Multiple Top", "Multiple Bottom",
     "Ascending Triangle", "Descending Triangle", "Wedge Up", "Wedge Down",
     "Channel Up", "Channel Down", "Double Top", "Double Bottom"}

TrendLabels == {"Support Trendline", "Resistance Trendline"}

\* The 18 labels of the fixed vocabulary.
Vocabulary == ShapeLabels \cup TrendLabels \cup PivotLabels

TriangleScenario ==
    /\ "triangle" \in ran
    /\ window = 3
    /\ df.n = 5
    /\ \A i \in Rows(df.n) : HighAt(i) = 10 /\ LowAt(i) = 5
    /\ Closes = <<1, 2, 3, 4, 5>>

\* C7 as stated: 'Ascending Triangle' at exactly the bars of index 3 and 4,
\* no 'Descending Triangle'.
C7_AscendingAt3And4 ==
    TriangleScenario =>
        Found("Ascending Triangle") = <<3, 4>> /\ Found("Descending Triangle") = <<>>

\* C7 amended: 'Ascending Triangle' at exactly the bars of index 2, 3 and 4
\* (the window of 3 is full from index 2 on), at neither of the bars 0 and 1,
\* and no 'Descending Triangle'.
C7_AscendingFrom2 ==
    TriangleScenario =>
        Found("Ascending Triangle") = <<2, 3, 4>> /\ Found("Descending Triangle") = <<>>

C7_Witness == TriangleScenario /\ 2 \in Stamps("Ascending Triangle")

\* A bar's high-low range is at most 5% of its midpoint.
TightBar(i) == 40 * (HighAt(i) - LowAt(i)) <= HighAt(i) + LowAt(i)

\* The scenario of C8 around bar i: bars i-1 and i+1 have the same high, bar i
\* a lower one, and both high bars have a tight range.
TwoEqualHighsAround(i) ==
    /\ i - 1 \in Rows(df.n)
    /\ i + 1 \in Rows(df.n)
    /\ HighAt(i - 1) = HighAt(i + 1)
    /\ HighAt(i) < HighAt(i - 1)
    /\ TightBar(i - 1)
    /\ TightBar(i + 1)

\* Bar i's high is below the highs of both neighbours.
HighValley(i) ==
    /\ i - 1 \in Rows(df.n)
    /\ i + 1 \in Rows(df.n)
    /\ HighAt(i) < HighAt(i - 1)
    /\ HighAt(i) < HighAt(i + 1)

DoubleRan == "double_top_bottom" \in ran /\ window = 3

\* C8 as stated: with two equal highs around a lower bar, both tight,
\* detect_double_top_bottom (window 3, threshold 0.05) records exactly one
\* 'Double Top' timestamp, the one of the first of the two high bars.
C8_DoubleTopAtFirstHigh ==
    DoubleRan =>
        \A i \in Rows(df.n) :
            TwoEqualHighsAround(i) => Found("Double Top") = <<i - 1>>

\* C8 amended: with window 3 and threshold 0.05, two equal tight highs around
\* a lower bar give a 'Double Top' at the lower bar between them when that
\* bar has index 2 or more (the window is full) and none for them when it has
\* index 1; neither of the two high bars is recorded; and when no other bar
\* of the series has a high below both neighbours, that is the only 'Double
\* Top' timestamp.
C8_DoubleTopAtLowerBar ==
    DoubleRan =>
        \A i \in Rows(df.n) :
            TwoEqualHighsAround(i) =>
                /\ i >= 2 <=> i \in Stamps("Double Top")
                /\ (i - 1) \notin Stamps("Double Top")
                /\ (i + 1) \notin Stamps("Double Top")
                /\ (\A j \in Rows(df.n) \ {i} : ~HighValley(j)) =>
                      Found("Double Top") = IF i >= 2 THEN <<i>> ELSE <<>>

\* Four bars, two equal tight highs around bar 2, recorded as the one 'Double
\* Top' at index 2.
C8_Witness ==
    /\ DoubleRan
    /\ df.n = 4
    /\ TwoEqualHighsAround(2)
    /\ Found("Double Top") = <<2>>

\* The frame as analyze_stock builds it, before any detector.
BaseFrame ==
    [n |-> df.n, cols |-> [c \in {"Open", "High", "Low", "Close", "Volume"} |-> df.cols[c]]]

Ascending(ts) == \A j \in 1 .. (Len(ts) - 1) : ts[j] < ts[j + 1]

\* The index agrees with what one detector returned: each of its labels is a
\* key iff its list is not empty, and the key's list is that list as text.
IndexAgreesWith(returned) ==
    /\ DOMAIN returned \subseteq Vocabulary
    /\ \A l \in DOMAIN returned :
          /\ Ascending(returned[l])
          /\ l \in DOMAIN detected_patterns <=> Len(returned[l]) > 0
          /\ l \in DOMAIN detected_patterns =>
                /\ Len(detected_patterns[l]) = Len(returned[l])
                /\ \A j \in 1 .. Len(returned[l]) :
                      detected_patterns[l][j] = strftime(returned[l][j])

\* C9: after the aggregation the index holds a label iff its detector
\* returned at least one timestamp for it, with exactly that detector's
\* timestamps (what the detector returns when called alone on the bars), as
\* text, in series order; no label is present with an empty list; every key
\* is one of the 18 labels.
C9_IndexIsTheNonEmptyLists ==
    pc = "done" =>
        /\ DOMAIN detected_patterns \subseteq Vocabulary
        /\ \A l \in DOMAIN detected_patterns : Len(detected_patterns[l]) > 0
        /\ \A name \in Detectors :
              IndexAgreesWith(Detect(name, BaseFrame, window, twindow).patterns)
        /\ Cardinality(UNION {DOMAIN Detect(name, BaseFrame, window, twindow).patterns :
                                  name \in Detectors}) = Cardinality(Vocabulary)

\* An index with at least four labels, one of them with two timestamps, and
\* a label that was returned empty and is absent.
C9_Witness ==
    /\ pc = "done"
    /\ Cardinality(DOMAIN detected_patterns) >= 4
    /\ \E l \in DOMAIN detected_patterns : Len(detected_patterns[l]) >= 2
    /\ \E l \in Vocabulary : l \in DOMAIN patterns_with_times /\ l \notin DOMAIN detected_patterns

\* C10: no window-based shape classifier records a bar of index below W-1,
\* where the rolling values are missing.
C10_NothingBeforeWindowFull ==
    \A l \in ShapeLabels : \A t \in Stamps(l) : t >= window - 1

\* With window 3 a classifier records the first bar that has a full window.
C10_Witness ==
    /\ window = 3
    /\ pc = "done"
    /\ 2 \in Stamps("Double Top")
    /\ 2 \in Stamps("Ascending Triangle")

\* patterns_with_times after the detectors named in names[k..] ran in that
\* order on frame d, starting from the entries p.
RECURSIVE RunInOrder(_, _, _, _)
RunInOrder(names, k, d, p) ==
    IF k > Len(names) THEN p
    ELSE LET r == Detect(names[k], d, window, twindow)
         IN  RunInOrder(names, k + 1, r.df, Update(p, r.patterns))

\* C4: whatever order the nine detectors ran in, the merged index is the one
\* the order of analyze_stock gives on the same bars.
C4_OrderDoesNotMatter ==
    pc = "done" => detected_patterns = Collected(RunInOrder(Order, 1, BaseFrame, <<>>))

\* A finished pass in which the band detector ran after the trendline (the
\* 'support' column holds a band, not a trendline value), with a non-empty
\* index.
C4_Witness ==
    /\ pc = "done"
    /\ order = "any"
    /\ \E i \in Rows(df.n) : Len(df.cols["support"][i]) = 5
    /\ Cardinality(DOMAIN detected_patterns) >= 3

\* The band calculate_support_resistance writes on the bars of the frame.
SupportBand == Band(df.cols["Low"], window, -std_dev, df.n)

ResistanceBand == Band(df.cols["High"], window, std_dev, df.n)

\* C11 as stated: when the pass has finished, every bar of index i >= W-1
\* still carries in 'support' and 'resistance' the band values written by
\* calculate_support_resistance, mean_low - 2*std_low and
\* mean_high + 2*std_high.
C11_BandSurvivesThePass ==
    pc = "done" =>
        \A i \in Rows(df.n) :
            i >= window - 1 =>
                /\ df.cols["support"][i] = SupportBand[i]
                /\ df.cols["resistance"][i] = ResistanceBand[i]

\* What the pass leaves instead: once detect_trendline has run after the band
\* detector, 'support' holds the trendline value on the bars of positive
\* slope and nothing elsewhere, and 'resistance' the trendline value on the
\* bars of negative slope and nothing elsewhere; no band value is left.
C11_TrendlineReplacesBand ==
    (order = "code" /\ "trendline" \in ran) =>
        \A i \in Rows(df.n) :
            /\ df.cols["support"][i] =
                  (IF mask_support(df)[i] THEN TrendValue(df)[i] ELSE NaN)
            /\ df.cols["resistance"][i] =
                  (IF mask_resistance(df)[i] THEN TrendValue(df)[i] ELSE NaN)
            /\ Len(df.cols["support"][i]) # 5
            /\ Len(df.cols["resistance"][i]) # 5

\* The band was written on a bar with a full window and the pass has
\* finished with that bar's 'support' cleared.
C11_BandWasCleared ==
    /\ pc = "done"
    /\ window = 3
    /\ df.n >= 3
    /\ SupportBand[2] # NaN
    /\ df.cols["support"][2] = NaN

\* The least-squares line of the w closes before bar i against x = 0 .. w-1,
\* as the claim C12 states it: slope and intercept as fractions.
StatedDen(w) ==
    w * SumOver([k \in 0 .. (w - 1) |-> k * k], 0, w - 1)
      - SumOver([k \in 0 .. (w - 1) |-> k], 0, w - 1) * SumOver([k \in 0 .. (w - 1) |-> k], 0, w - 1)

StatedSlopeNum(i, w) ==
    w * SumOver([k \in 0 .. (w - 1) |-> k * CloseAt(i - w + k)], 0, w - 1)
      - SumOver([k \in 0 .. (w - 1) |-> k], 0, w - 1)
        * SumOver([k \in 0 .. (w - 1) |-> CloseAt(i - w + k)], 0, w - 1)

StatedSlope(i, w) == <<StatedSlopeNum(i, w), StatedDen(w)>>

StatedIntercept(i, w) ==
    <<SumOver([k \in 0 .. (w - 1) |-> CloseAt(i - w + k)], 0, w - 1) * StatedDen(w)
        - StatedSlopeNum(i, w) * SumOver([k \in 0 .. (w - 1) |-> k], 0, w - 1),
      w * StatedDen(w)>>

\* Two fractions with non-zero denominators name the same number.
SameFraction(a, b) == a # NaN /\ b # NaN /\ a[1] * b[2] = b[1] * a[2]

\* The slope part of C12: the stored slope is the stated one.
SlopeAsStated ==
    "trendline" \in ran =>
        \A i \in Rows(df.n) :
            IF i >= twindow
            THEN /\ SameFraction(df.cols["slope"][i], StatedSlope(i, twindow))
                 /\ twindow = 2 =>
                       SameFraction(df.cols["slope"][i], <<CloseAt(i - 1) - CloseAt(i - 2), 1>>)
            ELSE df.cols["slope"][i] = NaN /\ df.cols["intercept"][i] = NaN

\* C12 as stated: once detect_trendline has run with window W, slope[i] and
\* intercept[i] of every bar i >= W are the least-squares coefficients of
\* Close[i-W..i-1] against x = 0 .. W-1, so for W = 2 the slope is
\* Close[i-1] - Close[i-2] and the intercept Close[i-2]; below W both are
\* missing.
C12_FitAgainstZeroBasedX ==
    /\ SlopeAsStated
    /\ "trendline" \in ran =>
          \A i \in Rows(df.n) :
              i >= twindow =>
                  /\ SameFraction(df.cols["intercept"][i], StatedIntercept(i, twindow))
                  /\ twindow = 2 => SameFraction(df.cols["intercept"][i], <<CloseAt(i - 2), 1>>)

\* What the code stores: the intercept of the line fitted against the row
\* positions x = i-W .. i-1, which is the stated intercept moved by
\* (i - W) times the slope, and the stated one where i = W or the slope is 0.
InterceptAtRowPositions ==
    "trendline" \in ran =>
        \A i \in Rows(df.n) :
            i >= twindow =>
                LET c  == df.cols["intercept"][i]
                    m  == StatedSlope(i, twindow)
                    c0 == StatedIntercept(i, twindow)
                IN  SameFraction(c, <<c0[1] * m[2] - (i - twindow) * m[1] * c0[2], c0[2] * m[2]>>)

\* The bars that have a bar on each side: only there both differences exist.
Inner == {i \in Rows(df.n) : 1 <= i /\ i <= df.n - 2}

\* High[i] - High[i-1] and Low[i] - Low[i-1], for 1 <= i <= N-1.
dH(i) == HighAt(i) - HighAt(i - 1)

dL(i) == LowAt(i) - LowAt(i - 1)

\* C13: once find_pivots has run, bar i is under 'Higher High' iff dH[i] > 0
\* and dH[i+1] < 0, under 'Lower Low' iff dL[i] < 0 and dL[i+1] > 0, under
\* 'Lower High' iff dH[i] < 0 and dH[i+1] > 0, under 'Higher Low' iff
\* dL[i] > 0 and dL[i+1] < 0 (the first and the last bar, where one of the two
\* differences does not exist, under none); a zero difference on either side
\* gives no pivot of that column.
C13_PivotsBySignChange ==
    "pivots" \in ran =>
        \A i \in Rows(df.n) :
            /\ i \in Stamps("Higher High") <=> (i \in Inner /\ dH(i) > 0 /\ dH(i + 1) < 0)
            /\ i \in Stamps("Lower Low") <=> (i \in Inner /\ dL(i) < 0 /\ dL(i + 1) > 0)
            /\ i \in Stamps("Lower High") <=> (i \in Inner /\ dH(i) < 0 /\ dH(i + 1) > 0)
            /\ i \in Stamps("Higher Low") <=> (i \in Inner /\ dL(i) > 0 /\ dL(i + 1) < 0)
            /\ (i \in Inner /\ (dH(i) = 0 \/ dH(i + 1) = 0)) =>
                  (i \notin Stamps("Higher High") /\ i \notin Stamps("Lower High"))
            /\ (i \in Inner /\ (dL(i) = 0 \/ dL(i + 1) = 0)) =>
                  (i \notin Stamps("Lower Low") /\ i \notin Stamps("Higher Low"))

\* find_pivots has listed a higher high, a lower low and a higher low, and
\* has left out a bar whose high fell and then stayed level.
C13_Witness ==
    /\ "pivots" \in ran
    /\ Stamps("Higher High") # {}
    /\ Stamps("Lower Low") # {}
    /\ Stamps("Higher Low") # {}
    /\ \E j \in Inner : dH(j) < 0 /\ dH(j + 1) = 0 /\ j \notin Stamps("Lower High")

\* The columns of a bar as analyze_stock builds them.
InputColumns == {"Open", "High", "Low", "Close", "Volume"}

\* One step leaves the bars as they were: same number of rows, the five
\* input columns present under their names, every value where it was.
BarsUnchanged ==
    /\ df'.n = df.n
    /\ InputColumns \subseteq DOMAIN df'.cols
    /\ \A c \in InputColumns :
          /\ DOMAIN df'.cols[c] = Rows(df.n)
          /\ \A i \in Rows(df.n) : df'.cols[c][i] = df.cols[c][i]

\* C14: no detector, in whatever order the detectors run, changes the number
\* of bars, their order, or a bar's Open, High, Low, Close or Volume; a step
\* only adds or overwrites derived columns.
C14_DetectorsKeepTheBars == [][BarsUnchanged]_vars

\* Every detector has run in a pass that may take them in any order, derived
\* columns were added and filled, and the bars are not degenerate: some bar
\* has High above Low.
C14_Witness ==
    /\ ran = Detectors
    /\ order = "any"
    /\ InputColumns \subseteq DOMAIN df.cols
    /\ {"signal", "slope", "double_pattern", "support"} \subseteq DOMAIN df.cols
    /\ \E i \in Rows(df.n) : df.cols["signal"][i] # ""
    /\ \E i \in Rows(df.n) : HighAt(i) > LowAt(i)

\* C15: with a window of 2 or more detect_multiple_tops_bottoms returns two
\* empty lists on every series: where the rolling close-max exists its window
\* holds bar i-1, so it is not below Close[i-1], and the rolling close-min is
\* not above it; a 'Multiple Top' or 'Multiple Bottom' timestamp is found
\* only under window 1.
C15_MultipleTopsOnlyAtWindowOne ==
    "multiple_tops_bottoms" \in ran =>
        /\ window >= 2 =>
              /\ Found("Multiple Top") = <<>>
              /\ Found("Multiple Bottom") = <<>>
              /\ \A i \in Rows(df.n) :
                    (i >= 1 /\ df.cols["close_roll_max"][i] # NaN) =>
                        /\ df.cols["close_roll_max"][i][1] >= CloseAt(i - 1)
                        /\ df.cols["close_roll_min"][i][1] <= CloseAt(i - 1)
        /\ (Stamps("Multiple Top") # {} \/ Stamps("Multiple Bottom") # {}) => window = 1

\* detect_multiple_tops_bottoms has run with the default window 3 on a series
\* whose close fell into a bar with a full window, where the high condition
\* of the top mask holds, and has returned two empty lists.
C15_Witness ==
    /\ "multiple_tops_bottoms" \in ran
    /\ window = 3
    /\ "Multiple Top" \in DOMAIN patterns_with_times
    /\ Found("Multiple Top") = <<>>
    /\ Found("Multiple Bottom") = <<>>
    /\ \E i \in Rows(df.n) :
          /\ i >= 2
          /\ CloseAt(i - 1) > CloseAt(i)
          /\ df.cols["high_roll_max"][i] # NaN
          /\ df.cols["high_roll_max"][i][1] >= HighAt(i - 1)

\* Under window 1 the rolling values are the bar's own, and a falling close
\* with a high not below the previous one is a 'Multiple Top'.
MultipleTopAtWindowOne ==
    /\ window = 1
    /\ Stamps("Multiple Top") # {}

====
